---- MODULE Spec2Model ----
(***************************************************************************)
(* Model of validate_summary_generated_by_ai.py: the field validator       *)
(* (validate_field_structure), the per-segment loop body and the document  *)
(* validator (validate_video_summary).                                     *)
(*                                                                         *)
(* Python dicts are functions whose DOMAIN is the set of keys present;     *)
(* JSON values are records [k, s, n] (kind, string content, number or      *)
(* length); a call that raises is an outcome of its own.                   *)
(***************************************************************************)
EXTENDS Integers, Sequences, FiniteSets, TLC

VARIABLES
    pc,                   \* position in validate_video_summary
    json_data,            \* the document text, as what json.loads makes of it
    yaml_rules_path,      \* the rule file, as what exists()/safe_load make of it
    data,                 \* parsed document
    rules,                \* loaded rule set
    segments_rules,       \* rules["validation"]["structure"]["fields"]["segments"]
    i,                    \* index of the next segment of the loop
    segments_validation,  \* entries appended so far
    valid_segments,       \* counter of valid segments
    result,               \* what the call returned or raised
    fv_in, fv_out,        \* one call of validate_field_structure
    sv_in, sv_out         \* one run of the loop body on one segment

vars == <<pc, json_data, yaml_rules_path, data, rules, segments_rules, i,
          segments_validation, valid_segments, result,
          fv_in, fv_out, sv_in, sv_out>>

docVars == <<pc, json_data, yaml_rules_path, data, rules, segments_rules, i,
             segments_validation, valid_segments, result>>

----------------------------------------------------------------------------
(* JSON / YAML values *)

NullV == [k |-> "null", s |-> "", n |-> 0]
StrV(str) == [k |-> "str", s |-> str, n |-> 0]
NumV(num) == [k |-> "num", s |-> "", n |-> num]
BoolV(b) == [k |-> "bool", s |-> "", n |-> IF b THEN 1 ELSE 0]
ArrV(len) == [k |-> "arr", s |-> "", n |-> len]
ObjV == [k |-> "obj", s |-> "", n |-> 0]

\* isinstance(v, str), isinstance(v, (int, float)) (a bool is an int),
\* isinstance(v, list), isinstance(v, dict)
IsStr(v) == v.k = "str"
IsNumber(v) == v.k \in {"num", "bool"}
IsList(v) == v.k = "arr"
IsDict(v) == v.k = "obj"
\* list and dict values are unhashable: a dict lookup with one raises TypeError
Hashable(v) == v.k \notin {"arr", "obj"}

\* d.get(key, default) and the empty dict
EmptyDict == [key \in {} |-> NullV]
Get(d, key, default) == IF key \in DOMAIN d THEN d[key] ELSE default
Has(d, key) == key \in DOMAIN d

\* str.endswith and str.startswith
EndsWith(str, suffix) ==
    /\ Len(str) >= Len(suffix)
    /\ SubSeq(str, Len(str) - Len(suffix) + 1, Len(str)) = suffix
StartsWith(str, prefix) ==
    /\ Len(str) >= Len(prefix)
    /\ SubSeq(str, 1, Len(prefix)) = prefix

\* re.match(pattern, value) for a pattern of literal characters: the match
\* is anchored at position 0
ReMatch(pattern, str) == StartsWith(str, pattern)

\* repr of a list of strings, as an f-string formats enum_values
RECURSIVE ReprItems(_)
ReprItems(items) ==
    IF items = <<>> THEN ""
    ELSE IF Len(items) = 1 THEN "'" \o items[1] \o "'"
    ELSE "'" \o items[1] \o "', " \o ReprItems(Tail(items))
ReprList(items) == "[" \o ReprItems(items) \o "]"

\* f"{x}" of a scalar rule attribute
Fmt(v) == IF v.k = "str" THEN v.s ELSE ToString(v.n)

\* Variant of Level: the levels of "medium" and "high" exchanged in the table
LevelMediumAboveHigh(v) ==
    IF v.k = "str" /\ v.s \in {"low", "medium", "high"}
    THEN [low |-> 1, medium |-> 3, high |-> 2][v.s] ELSE 0

\* confidence_levels.get(x, 0)
confidence_levels == [low |-> 1, medium |-> 2, high |-> 3]
Level(v) ==
    IF v.k = "str" /\ v.s \in DOMAIN confidence_levels
    THEN confidence_levels[v.s] ELSE 0

----------------------------------------------------------------------------
(* validate_field_structure *)

FvRaise == [raised |-> TRUE, ok |-> FALSE, errors |-> <<>>]
FvReturn(errors) == [raised |-> FALSE, ok |-> errors = <<>>, errors |-> errors]

\* Variants of Required: the key misspelt, and a default of True
RequiredMisspeltKey(field_rules) == Get(field_rules, "require", FALSE)
RequiredByDefault(field_rules) == Get(field_rules, "required", TRUE)

Required(field_rules) == Get(field_rules, "required", FALSE)

TypeErrors(field_value, field_type, field_name) ==
    IF field_type = "string" /\ ~IsStr(field_value)
    THEN <<"Field '" \o field_name \o "' should be a string">>
    ELSE IF field_type = "number" /\ ~IsNumber(field_value)
    THEN <<"Field '" \o field_name \o "' should be a number">>
    ELSE IF field_type = "array" /\ ~IsList(field_value)
    THEN <<"Field '" \o field_name \o "' should be an array">>
    ELSE IF field_type = "object" /\ ~IsDict(field_value)
    THEN <<"Field '" \o field_name \o "' should be an object">>
    ELSE <<>>

StringErrors(field_value, field_rules, field_type, field_name) ==
    IF field_type = "string" /\ IsStr(field_value)
    THEN (IF Has(field_rules, "min_length")
             /\ Len(field_value.s) < field_rules["min_length"]
          THEN <<"Field '" \o field_name \o "' length should be at least "
                 \o ToString(field_rules["min_length"])>>
          ELSE <<>>)
         \o
         (IF Has(field_rules, "pattern")
             /\ ~ReMatch(field_rules["pattern"], field_value.s)
          THEN <<"Field '" \o field_name \o "' does not match required pattern">>
          ELSE <<>>)
         \o
         (IF Has(field_rules, "enum")
             /\ \A e \in 1..Len(field_rules["enum"]) :
                    field_rules["enum"][e] # field_value.s
          THEN <<"Field '" \o field_name \o "' should be one of "
                 \o ReprList(field_rules["enum"])>>
          ELSE <<>>)
    ELSE <<>>

ArrayErrors(field_value, field_rules, field_type, field_name) ==
    IF field_type = "array" /\ IsList(field_value)
       /\ Has(field_rules, "min_items")
       /\ field_value.n < field_rules["min_items"]
    THEN <<"Field '" \o field_name \o "' should have at least "
           \o ToString(field_rules["min_items"]) \o " items">>
    ELSE <<>>

\* field_value < threshold raises TypeError when threshold is a string
NumberRaises(field_value, field_rules, field_type) ==
    /\ field_type = "number" /\ IsNumber(field_value)
    /\ Has(field_rules, "threshold")
    /\ ~IsNumber(field_rules["threshold"])

NumberErrors(field_value, field_rules, field_type, field_name) ==
    IF field_type = "number" /\ IsNumber(field_value)
    THEN (IF Has(field_rules, "min") /\ field_value.n < field_rules["min"]
          THEN <<"Field '" \o field_name \o "' should be at least "
                 \o ToString(field_rules["min"])>>
          ELSE <<>>)
         \o
         (IF Has(field_rules, "max") /\ field_value.n > field_rules["max"]
          THEN <<"Field '" \o field_name \o "' should be at most "
                 \o ToString(field_rules["max"])>>
          ELSE <<>>)
         \o
         (IF Has(field_rules, "threshold")
             /\ IsNumber(field_rules["threshold"])
             /\ field_value.n < field_rules["threshold"].n
          THEN <<"Field '" \o field_name \o "' should be at least "
                 \o Fmt(field_rules["threshold"])>>
          ELSE <<>>)
    ELSE <<>>

\* confidence_levels.get(field_value, 0) raises TypeError on a list or dict
ConfidenceRaises(field_value, field_rules, field_name) ==
    /\ EndsWith(field_name, "confidence")
    /\ Has(field_rules, "threshold")
    /\ ~Hashable(field_value)

ConfidenceErrors(field_value, field_rules, field_name) ==
    IF EndsWith(field_name, "confidence") /\ Has(field_rules, "threshold")
       /\ Level(field_value) < Level(field_rules["threshold"])
    THEN <<"Field '" \o field_name \o "' should be at least '"
           \o Fmt(field_rules["threshold"]) \o "'">>
    ELSE <<>>

validate_field_structure(field_value, field_rules, field_name) ==
    LET field_type == Get(field_rules, "type", "")
    IN  IF Required(field_rules) /\ field_value = NullV
        THEN FvReturn(<<"Required field '" \o field_name \o "' is missing">>)
        ELSE IF ~Required(field_rules) /\ field_value = NullV
        THEN FvReturn(<<>>)
        ELSE IF NumberRaises(field_value, field_rules, field_type)
                \/ ConfidenceRaises(field_value, field_rules, field_name)
        THEN FvRaise
        ELSE FvReturn(
                 TypeErrors(field_value, field_type, field_name)
                 \o StringErrors(field_value, field_rules, field_type, field_name)
                 \o ArrayErrors(field_value, field_rules, field_type, field_name)
                 \o NumberErrors(field_value, field_rules, field_type, field_name)
                 \o ConfidenceErrors(field_value, field_rules, field_name))

----------------------------------------------------------------------------
(* The loop body of validate_video_summary: one segment *)

\* field_name_mapping, and the order in which .items() yields its keys
FieldOrder == <<"segment_title", "timestamps", "editorial_subjects",
                "visual_subjects", "names", "location">>
field_name_mapping ==
    [segment_title |-> <<"Segment Title", "segment_title">>,
     timestamps |-> <<"Timestamps", "timestamps">>,
     editorial_subjects |-> <<"Editorial subjects", "editorial_subjects">>,
     visual_subjects |-> <<"Visual Subjects", "visual_subjects">>,
     names |-> <<"Names", "names">>,
     location |-> <<"Location", "location">>]
CanonicalFields == DOMAIN field_name_mapping

\* for json_name in possible_json_names: if json_name in segment: ...; break
RECURSIVE FindFrom(_, _, _)
FindFrom(segment, possible_json_names, j) ==
    IF j > Len(possible_json_names)
    THEN [field_value |-> NullV, json_field_name |-> NullV]
    ELSE IF possible_json_names[j] \in DOMAIN segment
    THEN [field_value |-> segment[possible_json_names[j]],
          json_field_name |-> StrV(possible_json_names[j])]
    ELSE FindFrom(segment, possible_json_names, j + 1)
\* Variant of FindField: the loop without its break, the last alias wins
FindFieldLastWins(segment, possible_json_names) ==
    IF possible_json_names[2] \in DOMAIN segment
    THEN [field_value |-> segment[possible_json_names[2]],
          json_field_name |-> StrV(possible_json_names[2])]
    ELSE FindFrom(segment, possible_json_names, 1)
FindField(segment, possible_json_names) ==
    FindFrom(segment, possible_json_names, 1)

Call(value, rule, name) == [value |-> value, rule |-> rule, name |-> name]

\* The nested check of the segment-level confidence (score) value: made when
\* the value is not None and the field's rule has the sub-rule.
SubCheckApplies(segment, field_rule, key) ==
    Get(segment, key, NullV) # NullV /\ Has(field_rule, key)
\* Variant of SubCheckName: the field name left out
SubCheckNameBare(field_name, key) == key
SubCheckName(field_name, key) == field_name \o "_" \o key
SubCheck(segment, field_rule, field_name, key) ==
    IF SubCheckApplies(segment, field_rule, key)
    THEN validate_field_structure(segment[key], field_rule[key],
                                  SubCheckName(field_name, key))
    ELSE FvReturn(<<>>)
SubCall(segment, field_rule, field_name, key) ==
    IF SubCheckApplies(segment, field_rule, key)
    THEN <<Call(segment[key], field_rule[key], SubCheckName(field_name, key))>>
    ELSE <<>>

\* valid = valid and conf_valid (and score_valid)
MergeValid(own, conf, score) == own /\ conf /\ score
\* errors.extend(conf_errors); errors.extend(score_errors)
MergeErrors(own, conf, score) == own \o conf \o score

\* One pass of "for field_name, possible_json_names in ...items()": the entry
\* stored in field_validations[field_name], the calls of
\* validate_field_structure it made, and whether one of them raised.
FieldValidation(segment, field_rules, field_name) ==
    LET found == FindField(segment, field_name_mapping[field_name])
        field_rule == Get(field_rules, field_name, EmptyDict)
        own == validate_field_structure(found.field_value, field_rule, field_name)
        conf == SubCheck(segment, field_rule, field_name, "confidence")
        score == SubCheck(segment, field_rule, field_name, "score")
    IN  [raised |-> own.raised \/ conf.raised \/ score.raised,
         calls |-> <<Call(found.field_value, field_rule, field_name)>>
                   \o (IF own.raised THEN <<>>
                       ELSE SubCall(segment, field_rule, field_name, "confidence"))
                   \o (IF own.raised \/ conf.raised THEN <<>>
                       ELSE SubCall(segment, field_rule, field_name, "score")),
         entry |-> [valid |-> MergeValid(own.ok, conf.ok, score.ok),
                    json_field_name |-> found.json_field_name,
                    errors |-> MergeErrors(own.errors, conf.errors, score.errors)]]

\* Variant of SegmentValid: each field overwrites the flag, the last decides
SegmentValidLastField(field_validations) ==
    field_validations[FieldOrder[Len(FieldOrder)]].valid

\* segment_validation["valid"]: set to False by any field that is not valid
SegmentValid(field_validations) ==
    \A f \in DOMAIN field_validations : field_validations[f].valid

\* segment.get("Segment Title", segment.get("segment_title", "Unknown"))
SegmentTitle(segment) ==
    Get(segment, "Segment Title", Get(segment, "segment_title", StrV("Unknown")))

RECURSIVE CallsFrom(_, _, _)
CallsFrom(segment, field_rules, j) ==
    IF j > Len(FieldOrder) THEN <<>>
    ELSE LET fv == FieldValidation(segment, field_rules, FieldOrder[j])
         IN  IF fv.raised THEN fv.calls
             ELSE fv.calls \o CallsFrom(segment, field_rules, j + 1)

\* The segment's entry of segments_validation, for a segment that is a dict
\* and the field rules of item_schema
SegmentEntry(idx, segment, field_rules) ==
    LET fvs == [f \in CanonicalFields |-> FieldValidation(segment, field_rules, f)]
        field_validations == [f \in CanonicalFields |-> fvs[f].entry]
    IN  [raised |-> \E f \in CanonicalFields : fvs[f].raised,
         calls |-> CallsFrom(segment, field_rules, 1),
         entry |-> [segment_index |-> idx,
                    segment_title |-> SegmentTitle(segment),
                    valid |-> SegmentValid(field_validations),
                    field_validations |-> field_validations]]

----------------------------------------------------------------------------
(* validate_video_summary: the document-level steps *)

Summary(total, valid, invalid, status) ==
    [total_segments |-> total, valid_segments |-> valid,
     invalid_segments |-> invalid, overall_status |-> status]

\* The report of a short-circuit: "valid": False, "error": ..., an empty
\* segments_validation and a FAIL summary
ErrorReport(error, total, invalid) ==
    [valid |-> FALSE, error |-> StrV(error), segments_validation |-> <<>>,
     summary |-> Summary(total, 0, invalid, "FAIL")]

\* Variant of OverallStatus: PASS as soon as one segment is valid
OverallStatusAnyValid(valid, total) == IF valid > 0 THEN "PASS" ELSE "FAIL"

\* "overall_status": "PASS" if valid_segments == len(data["segments"]) else "FAIL"
OverallStatus(valid, total) == IF valid = total THEN "PASS" ELSE "FAIL"
\* "valid": valid_segments == len(data["segments"])
ReportValid(valid, total) == valid = total

\* The report of the per-segment path; it has no "error" key
FinalReport(entries, valid, total) ==
    [valid |-> ReportValid(valid, total), error |-> NullV,
     segments_validation |-> entries,
     summary |-> Summary(total, valid, total - valid, OverallStatus(valid, total))]

Returned(report) == [kind |-> "report", exc |-> "", report |-> report]
Raised(exc) == [kind |-> "raised", exc |-> exc, report |-> ErrorReport("", 0, 0)]
Running == [kind |-> "none", exc |-> "", report |-> ErrorReport("", 0, 0)]

Return(report) ==
    /\ result' = Returned(report)
    /\ pc' = "done"
Raise(exc) ==
    /\ result' = Raised(exc)
    /\ pc' = "done"

\* data = json.loads(json_data), or the "Invalid JSON format" report
ParseJson ==
    /\ pc = "parse"
    /\ IF json_data.t = "invalid"
       THEN /\ Return(ErrorReport("Invalid JSON format", 0, 0))
            /\ UNCHANGED data
       ELSE /\ data' = json_data
            /\ pc' = "load"
            /\ UNCHANGED result
    /\ UNCHANGED <<json_data, yaml_rules_path, rules, segments_rules, i,
                   segments_validation, valid_segments,
                   fv_in, fv_out, sv_in, sv_out>>

\* os.path.exists, open, yaml.safe_load inside try/except Exception
LoadRules ==
    /\ pc = "load"
    /\ IF ~yaml_rules_path.exists
       THEN /\ Return(ErrorReport("YAML rules file not found: "
                                  \o yaml_rules_path.path, 0, 0))
            /\ UNCHANGED rules
       ELSE IF ~yaml_rules_path.loads
       THEN /\ Return(ErrorReport("Error loading YAML rules: "
                                  \o yaml_rules_path.exception, 0, 0))
            /\ UNCHANGED rules
       ELSE /\ rules' = yaml_rules_path.content
            /\ pc' = "locate"
            /\ UNCHANGED result
    /\ UNCHANGED <<json_data, yaml_rules_path, data, segments_rules, i,
                   segments_validation, valid_segments,
                   fv_in, fv_out, sv_in, sv_out>>

\* d[path[1]][path[2]]...: whether every key is there, and the value
RECURSIVE HasPath(_, _)
HasPath(d, path) ==
    IF path = <<>> THEN TRUE
    ELSE Has(d, Head(path)) /\ HasPath(d[Head(path)], Tail(path))
RECURSIVE Lookup(_, _)
Lookup(d, path) ==
    IF path = <<>> THEN d ELSE Lookup(d[Head(path)], Tail(path))
SegmentsPath == <<"validation", "structure", "fields", "segments">>

\* segments_rules = rules["validation"]["structure"]["fields"]["segments"]
LocateSegmentsRule ==
    /\ pc = "locate"
    /\ IF HasPath(rules, SegmentsPath)
       THEN /\ segments_rules' = Lookup(rules, SegmentsPath)
            /\ pc' = "check"
            /\ UNCHANGED result
       ELSE /\ Raise("KeyError")
            /\ UNCHANGED segments_rules
    /\ UNCHANGED <<json_data, yaml_rules_path, data, rules, i,
                   segments_validation, valid_segments,
                   fv_in, fv_out, sv_in, sv_out>>

\* min_segments = segments_rules.get("min_items", 0)
MinSegments(sr) == Get(sr, "min_items", 0)

\* Variants of CheckOutcome: the min_items report with the zero summary of
\* the other short-circuits, and the type of segments tested before its
\* presence
CheckOutcomeZeroSummary(d, sr) ==
    IF d.t = "scalar"
    THEN Raised("TypeError")
    ELSE IF ~d.has
    THEN Returned(ErrorReport("Required field 'segments' is missing", 0, 0))
    ELSE IF d.t = "container"
    THEN Raised("TypeError")
    ELSE IF ~d.list
    THEN Returned(ErrorReport("Field 'segments' should be an array", 0, 0))
    ELSE IF Len(d.items) < MinSegments(sr)
    THEN Returned(ErrorReport("There should be at least "
                              \o ToString(MinSegments(sr)) \o " segments", 0, 0))
    ELSE Running
CheckOutcomeTypeFirst(d, sr) ==
    IF d.t = "scalar"
    THEN Raised("TypeError")
    ELSE IF ~d.list /\ d.t = "mapping"
    THEN Returned(ErrorReport("Field 'segments' should be an array", 0, 0))
    ELSE IF ~d.has
    THEN Returned(ErrorReport("Required field 'segments' is missing", 0, 0))
    ELSE IF d.t = "container"
    THEN Raised("TypeError")
    ELSE IF Len(d.items) < MinSegments(sr)
    THEN Returned(ErrorReport("There should be at least "
                              \o ToString(MinSegments(sr)) \o " segments",
                              Len(d.items), Len(d.items)))
    ELSE Running

\* The checks of data["segments"] before the loop, in the order of the code:
\* what the call does at the first one that fires
CheckOutcome(d, sr) ==
    IF d.t = "scalar"
    THEN Raised("TypeError")
    ELSE IF ~d.has
    THEN Returned(ErrorReport("Required field 'segments' is missing", 0, 0))
    ELSE IF d.t = "container"
    THEN Raised("TypeError")
    ELSE IF ~d.list
    THEN Returned(ErrorReport("Field 'segments' should be an array", 0, 0))
    ELSE IF Len(d.items) < MinSegments(sr)
    THEN Returned(ErrorReport("There should be at least "
                              \o ToString(MinSegments(sr)) \o " segments",
                              Len(d.items), Len(d.items)))
    ELSE Running

CheckSegments ==
    /\ pc = "check"
    /\ LET outcome == CheckOutcome(data, segments_rules)
       IN  IF outcome.kind = "none"
           THEN /\ pc' = "loop"
                /\ i' = 0
                /\ segments_validation' = <<>>
                /\ valid_segments' = 0
                /\ UNCHANGED result
           ELSE /\ result' = outcome
                /\ pc' = "done"
                /\ UNCHANGED <<i, segments_validation, valid_segments>>
    /\ UNCHANGED <<json_data, yaml_rules_path, data, rules, segments_rules,
                   fv_in, fv_out, sv_in, sv_out>>

\* One iteration of "for i, segment in enumerate(data["segments"])"
LoopOutcome(idx, segment, sr) ==
    IF ~segment.map
    THEN [raised |-> TRUE, exc |-> "AttributeError"]
    ELSE IF ~Has(sr, "item_schema") \/ ~Has(sr["item_schema"], "fields")
    THEN [raised |-> TRUE, exc |-> "KeyError"]
    ELSE LET se == SegmentEntry(idx, segment.f, sr["item_schema"]["fields"])
         IN  IF se.raised
             THEN [raised |-> TRUE, exc |-> "TypeError"]
             ELSE [raised |-> FALSE, exc |-> "", entry |-> se.entry]

ValidateSegment ==
    /\ pc = "loop"
    /\ i < Len(data.items)
    /\ LET outcome == LoopOutcome(i, data.items[i + 1], segments_rules)
       IN  IF outcome.raised
           THEN /\ Raise(outcome.exc)
                /\ UNCHANGED <<i, segments_validation, valid_segments>>
           ELSE /\ segments_validation' = Append(segments_validation, outcome.entry)
                /\ valid_segments' = IF outcome.entry.valid
                                     THEN valid_segments + 1 ELSE valid_segments
                /\ i' = i + 1
                /\ UNCHANGED <<pc, result>>
    /\ UNCHANGED <<json_data, yaml_rules_path, data, rules, segments_rules,
                   fv_in, fv_out, sv_in, sv_out>>

\* summary = {...}; report = {...}; return report
CreateReport ==
    /\ pc = "loop"
    /\ i = Len(data.items)
    /\ Return(FinalReport(segments_validation, valid_segments, Len(data.items)))
    /\ UNCHANGED <<json_data, yaml_rules_path, data, rules, segments_rules, i,
                   segments_validation, valid_segments,
                   fv_in, fv_out, sv_in, sv_out>>

----------------------------------------------------------------------------
(* Inputs of the document validator *)

MaxSegments == 2

Doc(t, has, list, items) == [t |-> t, has |-> has, list |-> list, items |-> items]
NoDoc == Doc("none", FALSE, FALSE, <<>>)

\* An element of data["segments"]: a dict, or anything else
Seg(dict) == [map |-> TRUE, f |-> dict]
NonMappingSegment == [map |-> FALSE, f |-> EmptyDict]

TitleAndNames == ("Segment Title" :> StrV("Intro")) @@ ("Names" :> ArrV(2))
DocSegments ==
    { NonMappingSegment,
      Seg(EmptyDict),
      Seg(TitleAndNames),
      Seg(TitleAndNames @@ ("confidence" :> StrV("low"))),
      Seg(("segment_title" :> NullV) @@ ("names" :> ArrV(0))),
      Seg(("Names" :> ArrV(1)) @@ ("confidence" :> ArrV(1))) }

Documents ==
    { Doc("invalid", FALSE, FALSE, <<>>),     \* text that json.loads rejects
      Doc("scalar", FALSE, FALSE, <<>>),      \* null, a number, true
      Doc("container", FALSE, FALSE, <<>>),   \* a list or string without "segments"
      Doc("container", TRUE, FALSE, <<>>),    \* a list or string holding "segments"
      Doc("mapping", FALSE, FALSE, <<>>),     \* an object without the key
      Doc("mapping", TRUE, FALSE, <<>>) }     \* "segments" is not a list
    \cup { Doc("mapping", TRUE, TRUE, items) :
             items \in UNION { [1..len -> DocSegments] : len \in 0..MaxSegments } }

TitleRequiredRules ==
    [segment_title |-> [type |-> "string", required |-> TRUE],
     names |-> [type |-> "array", min_items |-> 1]]
NamesConfidenceRules ==
    [names |-> [type |-> "array",
                confidence |-> [threshold |-> StrV("high")]]]
DocFieldRules == { EmptyDict, TitleRequiredRules, NamesConfidenceRules }

DocSegmentsRules ==
    { min @@ schema :
        min \in {EmptyDict} \cup { [min_items |-> m] : m \in 0..(MaxSegments + 1) },
        schema \in {EmptyDict, [item_schema |-> EmptyDict]}
                   \cup { [item_schema |-> [fields |-> fr]] : fr \in DocFieldRules } }

RulesWith(sr) == [validation |-> [structure |-> [fields |-> [segments |-> sr]]]]
RuleSets ==
    { EmptyDict, [validation |-> [structure |-> EmptyDict]] }
    \cup { RulesWith(sr) : sr \in DocSegmentsRules }

RuleFile(exists, loads, content) ==
    [exists |-> exists, loads |-> loads, content |-> content,
     path |-> "summary_validation_rules.yaml", exception |-> "mapping values are not allowed here"]
RuleFiles ==
    { RuleFile(FALSE, FALSE, EmptyDict), RuleFile(TRUE, FALSE, EmptyDict) }
    \cup { RuleFile(TRUE, TRUE, rs) : rs \in RuleSets }

----------------------------------------------------------------------------
(* Inputs of the field validator and of the loop body *)

Optional(parts) == {EmptyDict} \cup parts
RequiredParts == Optional({ [required |-> TRUE], [required |-> FALSE] })
ThresholdParts ==
    Optional({ [threshold |-> StrV("medium")], [threshold |-> StrV("high")],
               [threshold |-> NumV(3)] })
RankEnum == <<"low", "medium", "high">>
TypeParts ==
    Optional({ [enum |-> <<"low">>], [type |-> "object"] })
    \cup { [type |-> "string"] @@ a @@ b @@ c :
             a \in Optional({ [min_length |-> 4] }),
             b \in Optional({ [pattern |-> "In"] }),
             c \in Optional({ [enum |-> RankEnum] }) }
    \cup { [type |-> "array"] @@ a : a \in Optional({ [min_items |-> 1] }) }
    \cup { [type |-> "number"] @@ a @@ b :
             a \in Optional({ [min |-> 1] }), b \in Optional({ [max |-> 5] }) }
FieldRules ==
    { r @@ t @@ th : r \in RequiredParts, t \in TypeParts, th \in ThresholdParts }
FieldValues ==
    { NullV, StrV("low"), StrV("medium"), StrV("high"), StrV("Intro"),
      StrV("an Intro"), StrV(""), NumV(0), NumV(3), NumV(7), BoolV(TRUE),
      ArrV(0), ArrV(2), ObjV }
FieldNames == { "names", "names_confidence", "names_score", "confidence" }

SegValues == { NullV, StrV("Intro"), ArrV(2) }
AliasParts(field_name) ==
    { a @@ b :
        a \in Optional({ field_name_mapping[field_name][1] :> v : v \in SegValues }),
        b \in Optional({ field_name_mapping[field_name][2] :> v : v \in SegValues }) }
ConfidenceParts ==
    Optional({ "confidence" :> v :
                 v \in { NullV, StrV("low"), StrV("high"), ArrV(1) } })
ScoreParts == Optional({ "score" :> v : v \in { NumV(2) } })
SegmentsFor(field_name) ==
    { a @@ c @@ sc :
        a \in AliasParts(field_name), c \in ConfidenceParts, sc \in ScoreParts }

SubRuleParts ==
    { c @@ sc :
        c \in Optional({ [confidence |-> [threshold |-> StrV("high")]],
                         [confidence |-> [type |-> "string", enum |-> RankEnum,
                                          threshold |-> StrV("medium")]] }),
        sc \in Optional({ [score |-> [type |-> "number", min |-> 5]] }) }
SegRules ==
    { r @@ t @@ sub :
        r \in RequiredParts,
        t \in Optional({ [type |-> "string", min_length |-> 6],
                         [type |-> "array", min_items |-> 1] }),
        sub \in SubRuleParts }
OtherRule == [required |-> TRUE, confidence |-> [threshold |-> StrV("high")]]
OtherRules(field_name) ==
    { EmptyDict, [f \in CanonicalFields \ {field_name} |-> OtherRule] }
----------------------------------------------------------------------------
(* Specifications *)

Idle == [done |-> FALSE]

DocIdle ==
    /\ pc = "idle" /\ json_data = NoDoc
    /\ yaml_rules_path = RuleFile(FALSE, FALSE, EmptyDict)
    /\ data = NoDoc /\ rules = EmptyDict /\ segments_rules = EmptyDict
    /\ i = 0 /\ segments_validation = <<>> /\ valid_segments = 0
    /\ result = Running

\* One call of validate_video_summary on any document and any rule file
Init ==
    /\ pc = "parse"
    /\ json_data \in Documents
    /\ yaml_rules_path \in RuleFiles
    /\ data = NoDoc /\ rules = EmptyDict /\ segments_rules = EmptyDict
    /\ i = 0 /\ segments_validation = <<>> /\ valid_segments = 0
    /\ result = Running
    /\ fv_in = Idle /\ fv_out = Idle /\ sv_in = Idle /\ sv_out = Idle

Next ==
    \/ ParseJson
    \/ LoadRules
    \/ LocateSegmentsRule
    \/ CheckSegments
    \/ ValidateSegment
    \/ CreateReport

Spec == Init /\ [][Next]_vars

\* One call of validate_field_structure on any value, rule and name
FieldInit ==
    /\ DocIdle
    /\ \E v \in FieldValues, r \in FieldRules, nm \in FieldNames :
         fv_in = [done |-> FALSE, value |-> v, rule |-> r, name |-> nm]
    /\ fv_out = Idle /\ sv_in = Idle /\ sv_out = Idle

ApplyField ==
    /\ ~fv_out.done
    /\ fv_out' = [done |-> TRUE] @@
                 validate_field_structure(fv_in.value, fv_in.rule, fv_in.name)
    /\ UNCHANGED <<docVars, fv_in, sv_in, sv_out>>

FieldNext == ApplyField

FieldSpec == FieldInit /\ [][FieldNext]_vars

\* One run of the loop body on any segment and any field rules
SegInit ==
    /\ DocIdle
    /\ \E f \in CanonicalFields :
         \E seg \in SegmentsFor(f), r \in SegRules, o \in OtherRules(f) :
            sv_in = [done |-> FALSE, field |-> f, segment |-> seg,
                     field_rules |-> (f :> r) @@ o]
    /\ sv_out = Idle /\ fv_in = Idle /\ fv_out = Idle

ApplySegment ==
    /\ ~sv_out.done
    /\ sv_out' = [done |-> TRUE] @@
                 SegmentEntry(0, sv_in.segment, sv_in.field_rules)
    /\ UNCHANGED <<docVars, sv_in, fv_in, fv_out>>

SegNext == ApplySegment

SegSpec == SegInit /\ [][SegNext]_vars

----------------------------------------------------------------------------
(* Properties of the document validator (Spec) *)

HasReport == result.kind = "report"
Report == result.report
PerSegmentReport == HasReport /\ Report.error = NullV

RulesLoaded == yaml_rules_path.exists /\ yaml_rules_path.loads
SegmentsIsList == json_data.t = "mapping" /\ json_data.has /\ json_data.list

\* C1: validate_video_summary never raises: every call ends by returning a
\* Report, whatever the document and the rule set.
C1_NeverRaises == result.kind # "raised"

\* C2 as claimed: in every Report returned, short-circuit paths included,
\* overall_status = "PASS", valid_segments = total_segments and valid = true
\* are equivalent.
C2_ThreeWayEquivalence ==
    HasReport =>
        /\ (Report.summary.overall_status = "PASS")
             <=> (Report.summary.valid_segments = Report.summary.total_segments)
        /\ (Report.summary.valid_segments = Report.summary.total_segments)
             <=> Report.valid

\* C2 amended: in every Report returned, overall_status = "PASS" iff valid =
\* true, and each implies valid_segments = total_segments; the converse holds
\* in the Reports of the per-segment path (those without an error).
C2_StatusIffValid ==
    HasReport =>
        /\ (Report.summary.overall_status = "PASS") <=> Report.valid
        /\ Report.valid =>
             Report.summary.valid_segments = Report.summary.total_segments
        /\ (Report.error = NullV
            /\ Report.summary.valid_segments = Report.summary.total_segments)
             => Report.valid

C2_Witness ==
    /\ PerSegmentReport
    /\ Report.summary.total_segments >= 1
    /\ Report.summary.overall_status = "PASS"
    /\ Report.valid

\* C3 as claimed: whenever the parsed document's segments value is a
\* sequence, the returned summary has total_segments = the number of
\* segments and valid_segments + invalid_segments = total_segments.
C3_TotalIsLength ==
    (HasReport /\ SegmentsIsList) =>
        /\ Report.summary.total_segments = Len(json_data.items)
        /\ Report.summary.valid_segments + Report.summary.invalid_segments
             = Report.summary.total_segments

\* C3 amended: whenever the rule set was loaded and the parsed document's
\* segments value is a sequence (the min_items short-circuit and the
\* per-segment path), the returned summary has total_segments = the number
\* of segments and valid_segments + invalid_segments = total_segments.
C3_TotalIsLengthOnceLoaded ==
    (HasReport /\ RulesLoaded /\ SegmentsIsList) =>
        /\ Report.summary.total_segments = Len(json_data.items)
        /\ Report.summary.valid_segments + Report.summary.invalid_segments
             = Report.summary.total_segments

C3_Witness ==
    /\ HasReport /\ RulesLoaded /\ SegmentsIsList
    /\ Report.error # NullV
    /\ Report.summary.total_segments >= 1
    /\ Report.summary.invalid_segments = Len(json_data.items)

\* The five structural failures, read off the inputs of the call
DocUnparseable == json_data.t = "invalid"
RulesUnavailable == ~RulesLoaded
SegmentsKeyMissing == ~DocUnparseable /\ ~json_data.has
SegmentsNotSequence == ~DocUnparseable /\ json_data.has /\ ~json_data.list
InputMinItems ==
    IF RulesLoaded /\ HasPath(yaml_rules_path.content, SegmentsPath)
       /\ Has(Lookup(yaml_rules_path.content, SegmentsPath), "min_items")
    THEN Lookup(yaml_rules_path.content, SegmentsPath)["min_items"]
    ELSE 0
TooFewSegments == SegmentsIsList /\ Len(json_data.items) < InputMinItems
StructuralFailure ==
    \/ DocUnparseable \/ RulesUnavailable \/ SegmentsKeyMissing
    \/ SegmentsNotSequence \/ TooFewSegments

EarliestFailureReported ==
    IF DocUnparseable
    THEN Report.error = StrV("Invalid JSON format")
    ELSE IF RulesUnavailable
    THEN \/ StartsWith(Report.error.s, "YAML rules file not found: ")
         \/ StartsWith(Report.error.s, "Error loading YAML rules: ")
    ELSE IF SegmentsKeyMissing
    THEN Report.error = StrV("Required field 'segments' is missing")
    ELSE IF SegmentsNotSequence
    THEN Report.error = StrV("Field 'segments' should be an array")
    ELSE Report.error = StrV("There should be at least "
                             \o ToString(InputMinItems) \o " segments")

\* C6: the structural failures are tested in the order unparseable document,
\* unavailable rule set, missing segments key, segments not a sequence, too
\* few segments: a Report returned when some of them hold carries the error
\* of the earliest one, valid = false and an empty segments_validation, and
\* no segment is processed; a Report returned when none holds has no error.
C6_EarliestFailureWins ==
    /\ StructuralFailure => (segments_validation = <<>> /\ i = 0)
    /\ (HasReport /\ StructuralFailure) =>
         /\ Report.error.k = "str"
         /\ EarliestFailureReported
         /\ ~Report.valid
         /\ Report.segments_validation = <<>>
    /\ (HasReport /\ ~StructuralFailure) => Report.error = NullV

C6_Witness ==
    /\ HasReport
    /\ ~DocUnparseable /\ RulesUnavailable /\ SegmentsKeyMissing
    /\ StartsWith(Report.error.s, "YAML rules file not found: ")
    /\ Report.segments_validation = <<>>

\* C10: in every Report of the per-segment path, a segment entry is valid iff
\* every entry of its field_validations is valid, and the Report is valid iff
\* every segment entry is valid (an empty segment list gives a valid Report).
C10_ValidityIsConjunction ==
    PerSegmentReport =>
        /\ \A e \in 1..Len(Report.segments_validation) :
             LET entry == Report.segments_validation[e]
             IN  entry.valid <=>
                   (\A f \in DOMAIN entry.field_validations :
                        entry.field_validations[f].valid)
        /\ Report.valid <=>
             (\A e \in 1..Len(Report.segments_validation) :
                  Report.segments_validation[e].valid)

C10_Witness ==
    /\ PerSegmentReport
    /\ Len(Report.segments_validation) = 2
    /\ Report.segments_validation[1].valid
    /\ ~Report.segments_validation[2].valid
    /\ ~Report.valid

----------------------------------------------------------------------------
(* Properties of the loop body (SegSpec) *)

SegDone == sv_out.done /\ ~sv_out.raised
RuleOf(f) == Get(sv_in.field_rules, f, EmptyDict)
EntryOf(f) == sv_out.entry.field_validations[f]

\* The alias keys of f that the segment holds, by position in the alias list
PresentAliases(f) ==
    { j \in 1..Len(field_name_mapping[f]) :
        field_name_mapping[f][j] \in DOMAIN sv_in.segment }
FirstPresent(f) ==
    CHOOSE j \in PresentAliases(f) : \A other \in PresentAliases(f) : j <= other
\* The value of f is absent: no alias key in the segment, or the key that
\* is found holds null
ValueAbsent(f) ==
    \/ PresentAliases(f) = {}
    \/ sv_in.segment[field_name_mapping[f][FirstPresent(f)]] = NullV

Contains(str, sub) ==
    \E at \in 1..(Len(str) - Len(sub) + 1) :
        SubSeq(str, at, at + Len(sub) - 1) = sub
MissingError(f) == "Required field '" \o f \o "' is missing"
NamesSubCheck(f, error) ==
    Contains(error, f \o "_confidence") \/ Contains(error, f \o "_score")
\* A nested confidence or score check is made for f
SubCheckMade(f) ==
    \E key \in {"confidence", "score"} :
        /\ key \in DOMAIN RuleOf(f)
        /\ key \in DOMAIN sv_in.segment
        /\ sv_in.segment[key] # NullV
RequiredTrue(f) == "required" \in DOMAIN RuleOf(f) /\ RuleOf(f)["required"]

\* C4 as claimed: a required field whose value is absent has exactly one
\* error, "Required field '<name>' is missing", and valid = false, whatever
\* the rest of the rule (nested sub-rules included) and of the segment.
C4_RequiredAbsentOneError ==
    SegDone =>
        \A f \in CanonicalFields :
            (RequiredTrue(f) /\ ValueAbsent(f)) =>
                /\ EntryOf(f).errors = <<MissingError(f)>>
                /\ ~EntryOf(f).valid

\* C4 amended: a required field whose value is absent has valid = false and
\* "Required field '<name>' is missing" as its first error, whatever the
\* rest of the rule and of the segment; it is the only error unless a nested
\* confidence/score sub-rule is checked against a non-null segment-level
\* value, whose errors (naming <name>_confidence or <name>_score) follow it.
C4_RequiredAbsentFirstError ==
    SegDone =>
        \A f \in CanonicalFields :
            (RequiredTrue(f) /\ ValueAbsent(f)) =>
                /\ ~EntryOf(f).valid
                /\ EntryOf(f).errors # <<>>
                /\ EntryOf(f).errors[1] = MissingError(f)
                /\ \A e \in 2..Len(EntryOf(f).errors) :
                       NamesSubCheck(f, EntryOf(f).errors[e])
                /\ ~SubCheckMade(f) => Len(EntryOf(f).errors) = 1

C4_Witness ==
    /\ SegDone
    /\ \E f \in CanonicalFields :
          /\ RequiredTrue(f) /\ ValueAbsent(f)
          /\ PresentAliases(f) # {}
          /\ "type" \in DOMAIN RuleOf(f)
          /\ Len(EntryOf(f).errors) = 2
          /\ EntryOf(f).errors[1] = MissingError(f)

\* C5 as claimed: a field that is not required (required = false or no
\* required key) and whose value is absent has valid = true and no errors.
C5_OptionalAbsentValid ==
    SegDone =>
        \A f \in CanonicalFields :
            (~RequiredTrue(f) /\ ValueAbsent(f)) =>
                /\ EntryOf(f).valid
                /\ EntryOf(f).errors = <<>>

\* C5 amended: a field that is not required and whose value is absent gets
\* no error from its own rule, whatever the rule's type, pattern, enum,
\* bounds and threshold: it has valid = true and no errors unless a nested
\* confidence/score sub-rule is checked against a non-null segment-level
\* value, and then its errors are those of that check alone (each naming
\* <name>_confidence or <name>_score) and valid = (there are none).
C5_OptionalAbsentNoOwnError ==
    SegDone =>
        \A f \in CanonicalFields :
            (~RequiredTrue(f) /\ ValueAbsent(f)) =>
                /\ EntryOf(f).valid <=> (EntryOf(f).errors = <<>>)
                /\ \A e \in 1..Len(EntryOf(f).errors) :
                       NamesSubCheck(f, EntryOf(f).errors[e])
                /\ ~SubCheckMade(f) => EntryOf(f).valid

C5_Witness ==
    /\ SegDone
    /\ \E f \in CanonicalFields :
          /\ ~RequiredTrue(f) /\ ValueAbsent(f)
          /\ "required" \in DOMAIN RuleOf(f)
          /\ "type" \in DOMAIN RuleOf(f)
          /\ PresentAliases(f) # {}
          /\ EntryOf(f).valid
          /\ EntryOf(f).errors = <<>>

\* The calls of validate_field_structure made under a name
CallsNamed(name) ==
    { c \in 1..Len(sv_out.calls) : sv_out.calls[c].name = name }
ResultOf(c) ==
    validate_field_structure(sv_out.calls[c].value, sv_out.calls[c].rule,
                             sv_out.calls[c].name)
RECURSIVE ErrorsOfCalls(_, _)
ErrorsOfCalls(from, to) ==
    IF from > to THEN <<>>
    ELSE ResultOf(from).errors \o ErrorsOfCalls(from + 1, to)

\* C8: the segment-level confidence (score) value, when not null, is
\* validated once for every field whose rule has a confidence (score)
\* sub-rule, against that sub-rule and under the name <field>_confidence
\* (<field>_score); its errors follow the field's own and the field's valid
\* is the AND of the results. "low" against a sub-rule threshold "high"
\* makes the field invalid with an error naming <field>_confidence. Fields
\* without the sub-rule get no such call.
C8_SubRuleChecks ==
    SegDone =>
        \A f \in CanonicalFields :
          \A key \in {"confidence", "score"} :
            LET made == CallsNamed(f \o "_" \o key)
                own == CHOOSE c \in CallsNamed(f) : TRUE
                last == own + Cardinality(CallsNamed(f \o "_confidence"))
                            + Cardinality(CallsNamed(f \o "_score"))
            IN  /\ Cardinality(CallsNamed(f)) = 1
                /\ IF key \in DOMAIN RuleOf(f) /\ key \in DOMAIN sv_in.segment
                      /\ sv_in.segment[key] # NullV
                   THEN /\ Cardinality(made) = 1
                        /\ \A c \in made :
                             /\ sv_out.calls[c].value = sv_in.segment[key]
                             /\ sv_out.calls[c].rule = RuleOf(f)[key]
                             /\ c > own /\ c <= last
                   ELSE made = {}
                /\ EntryOf(f).errors = ErrorsOfCalls(own, last)
                /\ EntryOf(f).valid <=> (\A c \in own..last : ResultOf(c).ok)
                /\ (/\ "confidence" \in DOMAIN RuleOf(f)
                    /\ "threshold" \in DOMAIN RuleOf(f)["confidence"]
                    /\ RuleOf(f)["confidence"]["threshold"] = StrV("high")
                    /\ "confidence" \in DOMAIN sv_in.segment
                    /\ sv_in.segment["confidence"] = StrV("low"))
                   => /\ ~EntryOf(f).valid
                      /\ \E e \in 1..Len(EntryOf(f).errors) :
                           Contains(EntryOf(f).errors[e], f \o "_confidence")

C8_Witness ==
    /\ SegDone
    /\ sv_in.field = "names"
    /\ "confidence" \in DOMAIN sv_in.segment
    /\ sv_in.segment["confidence"] = StrV("low")
    /\ "confidence" \in DOMAIN RuleOf("names")
    /\ RuleOf("names")["confidence"] = [threshold |-> StrV("high")]
    /\ "Names" \in DOMAIN sv_in.segment
    /\ sv_in.segment["Names"] = ArrV(2)
    /\ ~EntryOf("names").valid
    /\ EntryOf("names").errors =
         <<"Field 'names_confidence' should be at least 'high'">>
    /\ EntryOf("location").errors =
         <<MissingError("location"),
           "Field 'location_confidence' should be at least 'high'">>

\* C9: the value validated for a field is the one under the first key of its
\* alias list that the segment holds, json_field_name is that key, and with
\* no alias key the value is absent and json_field_name null; a later alias
\* is not consulted once an earlier one is there, even with a null value.
C9_FirstAliasWins ==
    SegDone =>
        \A f \in CanonicalFields :
            /\ Cardinality(CallsNamed(f)) = 1
            /\ \A c \in CallsNamed(f) :
                 IF PresentAliases(f) = {}
                 THEN /\ EntryOf(f).json_field_name = NullV
                      /\ sv_out.calls[c].value = NullV
                 ELSE LET key == field_name_mapping[f][FirstPresent(f)]
                      IN  /\ EntryOf(f).json_field_name = StrV(key)
                          /\ sv_out.calls[c].value = sv_in.segment[key]
            /\ ("Segment Title" \in DOMAIN sv_in.segment /\ f = "segment_title")
                 => EntryOf(f).json_field_name = StrV("Segment Title")

C9_Witness ==
    /\ SegDone
    /\ "Segment Title" \in DOMAIN sv_in.segment
    /\ sv_in.segment["Segment Title"] = NullV
    /\ "segment_title" \in DOMAIN sv_in.segment
    /\ sv_in.segment["segment_title"] = StrV("Intro")
    /\ RequiredTrue("segment_title")
    /\ EntryOf("segment_title").json_field_name = StrV("Segment Title")
    /\ EntryOf("segment_title").errors[1] = MissingError("segment_title")

----------------------------------------------------------------------------
(* Properties of the field validator (FieldSpec) *)

FieldDone == fv_out.done /\ ~fv_out.raised
Rank(v) ==
    IF v = StrV("low") THEN 1
    ELSE IF v = StrV("medium") THEN 2
    ELSE IF v = StrV("high") THEN 3
    ELSE 0
ThresholdOnConfidence ==
    /\ FieldDone
    /\ EndsWith(fv_in.name, "confidence")
    /\ "threshold" \in DOMAIN fv_in.rule
RankError ==
    "Field '" \o fv_in.name \o "' should be at least '"
    \o Fmt(fv_in.rule["threshold"]) \o "'"
HasError(error) == \E e \in 1..Len(fv_out.errors) : fv_out.errors[e] = error

\* C7 as claimed: a confidence-named field with a threshold passes or fails
\* by rank (low 1, medium 2, high 3, anything else 0): it fails exactly when
\* rank(value) < rank(threshold).
C7_FailsExactlyBelowRank ==
    ThresholdOnConfidence =>
        (~fv_out.ok <=> Rank(fv_in.value) < Rank(fv_in.rule["threshold"]))

\* C7 amended: for a confidence-named field with a threshold and a value
\* that is present, the rank check (low 1, medium 2, high 3, anything else 0)
\* adds its error exactly when rank(value) < rank(threshold), and the field
\* then fails; when the rule declares no type (so that no other check runs)
\* the field fails exactly then, so with threshold "medium" the values
\* "medium" and "high" pass with no errors and "low" or any string outside
\* the table fails. An absent value passes or fails by required alone, and
\* a rule that declares a type can fail a value of sufficient rank.
C7_RankCheck ==
    (ThresholdOnConfidence /\ fv_in.value # NullV) =>
        LET below == Rank(fv_in.value) < Rank(fv_in.rule["threshold"])
        IN  /\ HasError(RankError) <=> below
            /\ below => ~fv_out.ok
            /\ "type" \notin DOMAIN fv_in.rule =>
                 /\ ~fv_out.ok <=> below
                 /\ fv_out.ok => fv_out.errors = <<>>
                 /\ ~fv_out.ok => fv_out.errors = <<RankError>>

C7_Witness ==
    /\ ThresholdOnConfidence
    /\ fv_in.name = "names_confidence"
    /\ fv_in.rule = [threshold |-> StrV("medium")]
    /\ fv_in.value = StrV("high")
    /\ fv_out.ok /\ fv_out.errors = <<>>

====
